---- MODULE Spec2Model ----
(***************************************************************************)
(* Leaderboard ranking and coefficient resolution of the progress bot.     *)
(* The stored state is the users table, the committed rows of the          *)
(* user_profile_results table and the test-week settings; sessions holds   *)
(* the database sessions that are open between two steps; out holds the    *)
(* answer of the latest operation.  The operations are the                 *)
(* result submission (result_input_handler), the getter of the leaderboard *)
(* window, which calls LeaderboardDAO.get_exercise_leaderboard and         *)
(* LeaderboardDAO.get_user_ranking, and get_coefficient_data.              *)
(***************************************************************************)
EXTENDS Integers, Sequences, FiniteSets, TLC

VARIABLES users, results, out, sessions, settings

vars == <<users, results, out, sessions, settings>>

(***************************************************************************)
(* Bounds                                                                  *)
(***************************************************************************)
\* Greatest number of rows of user_profile_results that is explored.
MaxResults == 3

\* Greatest number of items of a list that is formatted.
MaxItems == 2

\* Greatest number of committed rows while sessions run concurrently.
MaxCommitted == 2

(***************************************************************************)
(* Reference data                                                          *)
(***************************************************************************)
\* Python's None: a value different from every row and every answer.
None == [none |-> TRUE]

MALE == "MALE"
FEMALE == "FEMALE"
Gender == {MALE, FEMALE}

STM_TIME == "STM_TIME"
ASAP_TIME == "ASAP_TIME"
WEIGHT == "WEIGHT"
COEFFICIENT == "COEFFICIENT"

KILOGRAMS == "KILOGRAMS"
REPS == "REPS"
METERS == "METERS"
SECONDS == "SECONDS"
MINUTES == "MINUTES"
CALORIES == "CALORIES"
WATTS == "WATTS"
COEFFICIENT_UNIT == "COEFFICIENT_UNIT"
MeasurementUnit ==
    {KILOGRAMS, REPS, METERS, SECONDS, MINUTES, CALORIES, WATTS, COEFFICIENT_UNIT}

\* Telegram ids of the registered users; the ids a request may carry hold
\* one more id, which nobody registered.
UserIds == {1, 2, 3}
RequestUserIds == {1, 2, 3, 4}

\* The profile_exercises table: immutable reference data kept by the
\* administrators.  A name is the list of its words.  Exercise 1 is a weight
\* exercise, exercise 2 a timed "as fast as possible" exercise, exercises 3
\* to 6 are coefficient exercises; the name of exercise 4 carries the marker
\* of the variant with a hanging weight.
ProfileExercise ==
    [e \in {1, 2, 3, 4, 5, 6} |->
        CASE e = 1 -> [id |-> 1, name |-> <<"squat">>, unit |-> KILOGRAMS,
                       result_type |-> WEIGHT, is_time_based |-> FALSE]
          [] e = 2 -> [id |-> 2, name |-> <<"run", "400m">>, unit |-> SECONDS,
                       result_type |-> ASAP_TIME, is_time_based |-> TRUE]
          [] e = 3 -> [id |-> 3, name |-> <<"squat", "reps">>,
                       unit |-> COEFFICIENT_UNIT,
                       result_type |-> COEFFICIENT, is_time_based |-> FALSE]
          [] e = 4 -> [id |-> 4, name |-> <<"pull-ups", "s", "Podvesom">>,
                       unit |-> COEFFICIENT_UNIT,
                       result_type |-> COEFFICIENT, is_time_based |-> FALSE]
          [] e = 5 -> [id |-> 5, name |-> <<"deadlift", "reps">>,
                       unit |-> COEFFICIENT_UNIT,
                       result_type |-> COEFFICIENT, is_time_based |-> FALSE]
          [] e = 6 -> [id |-> 6, name |-> <<"muscle-ups">>,
                       unit |-> COEFFICIENT_UNIT,
                       result_type |-> COEFFICIENT, is_time_based |-> FALSE]]

\* The ids a request may carry hold one id that is not in the catalog.
ExerciseIds == DOMAIN ProfileExercise
RequestExerciseIds == {1, 2, 3, 4, 5, 6, 7}
UnknownExerciseIds == RequestExerciseIds \ ExerciseIds

\* Exercises whose result is typed in directly (on_add_result_click sends the
\* coefficient exercises to the repetition input instead).
DirectExerciseIds == {e \in ExerciseIds : ProfileExercise[e].result_type # COEFFICIENT}

\* Exercises whose result is computed from a repetition count.
CoefficientExerciseIds == {e \in ExerciseIds : ProfileExercise[e].result_type = COEFFICIENT}

\* COEFFICIENT_BASE_EXERCISES: the static table from the name of a
\* coefficient exercise to the name of its base exercise.  Exercises 3 and 4
\* rest on the squat; exercise 5 rests on an exercise the catalog does not
\* hold; exercise 6 has no base exercise.
COEFFICIENT_BASE_EXERCISES ==
    [name \in {<<"squat", "reps">>, <<"pull-ups", "s", "Podvesom">>, <<"deadlift", "reps">>} |->
        IF name = <<"deadlift", "reps">> THEN <<"deadlift">> ELSE <<"squat">>]

\* Values a user types as a result, one of them negative.
ResultValues == {30, 45}
InputValues == ResultValues \cup {-1}

(***************************************************************************)
(* Helpers                                                                 *)
(***************************************************************************)
\* func.max() over a non-empty set of numbers.
Max(S) == CHOOSE x \in S : \A y \in S : y <= x

\* The least number of a non-empty set; the properties use it.
Min(S) == CHOOSE x \in S : \A y \in S : x <= y

\* session.get(model, id): the row with that primary key, or None.
find_exercise_by_id(exercise_id) ==
    IF exercise_id \in ExerciseIds THEN ProfileExercise[exercise_id] ELSE None

find_user_by_id(user_id) ==
    IF user_id \in DOMAIN users THEN users[user_id] ELSE None

(***************************************************************************)
(* Init                                                                    *)
(***************************************************************************)
\* The users table after registration: users 1 and 2 are male and user 3
\* is of gender g; user 1 weighs 80 kg, user 2 has no biometrics row, user 3
\* has a biometrics row without a weight (0 stands for the empty weight).
registered_users(g) ==
    [u \in UserIds |->
        [telegram_id |-> u,
         gender |-> IF u = 3 THEN g ELSE MALE,
         biometrics |-> CASE u = 1 -> [weight |-> 80]
                          [] u = 2 -> None
                          [] u = 3 -> [weight |-> 0]]]

\* No session is open: a handler that runs in one step opens and closes its
\* session within the step.
no_sessions == [writer |-> None, reader |-> None]

\* GlobalSetting and UserSetting rows are created on first use with their
\* column defaults: the test week is enabled, no user has an override.
default_settings ==
    [test_week_enabled |-> TRUE,
     test_week_override |-> [u \in UserIds |-> FALSE]]

\* No result is stored yet.
Init ==
    /\ \E g \in Gender : users = registered_users(g)
    /\ results = <<>>
    /\ out = [op |-> "init"]
    /\ sessions = no_sessions
    /\ settings = default_settings

(***************************************************************************)
(* Result submission                                                       *)
(***************************************************************************)
\* Mutant: the validator of result_value is not applied.
validate_positive_result_value_skipped(value) == TRUE

\* ProfileResultSubmitSchema.validate_positive_result_value
validate_positive_result_value(value) == value >= 0

\* The date of the newest stored row, 0 when the table is empty.
LastDate == IF results = <<>> THEN 0 ELSE results[Len(results)].date

\* Mutant: an upsert, which overwrites the newest row of the pair when there
\* is one.
add_overwriting(db, user_id, exercise_id, value, date) ==
    LET rows == {i \in DOMAIN db : /\ db[i].user_id = user_id
                                   /\ db[i].exercise_id = exercise_id}
    IN  IF rows = {}
        THEN Append(db, [id |-> Len(db) + 1, user_id |-> user_id,
                         exercise_id |-> exercise_id, result_value |-> value,
                         date |-> date])
        ELSE [db EXCEPT ![Max(rows)] = [@ EXCEPT !.result_value = value, !.date = date]]

\* BaseDAO.add: one new row, no stored row is touched.
add(db, user_id, exercise_id, value, date) ==
    Append(db, [id |-> Len(db) + 1, user_id |-> user_id,
                exercise_id |-> exercise_id, result_value |-> value,
                date |-> date])

\* UserProfileResultDAO.add_result_with_validation: the submission is
\* checked against the standards of the exercise and then inserted.  No
\* standard is stored for the exercises of this catalog, so every value
\* passes.
add_result_with_validation(db, user_id, exercise_id, value, date) ==
    add(db, user_id, exercise_id, value, date)

\* The texts result_input_handler answers with.
MSG_RESULT_ADDED == [text |-> <<"the result was added">>]
MSG_NEGATIVE_VALUE == [text |-> <<"the value cannot be negative">>]
MSG_ADDING_FAILED == [text |-> <<"an error occurred while adding the result">>]

\* result_input_handler: a registered user types a value for a direct
\* exercise at time now.  The submit schema is built outside the inner try,
\* so its ValidationError for a negative value is caught by the outer
\* "except Exception", which answers that an error occurred; nothing is
\* stored.  Otherwise the row is added and the success message sent; when
\* sending it fails (send_fault) the same except answers instead, the
\* handler returns normally and the decorator commits the row.
result_input_handler(user_id, exercise_id, value, now, send_fault) ==
    /\ Len(results) < MaxResults
    /\ IF validate_positive_result_value(value)
       THEN /\ results' = add_result_with_validation(results, user_id, exercise_id,
                                                    value, now)
            /\ out' = [op |-> "submit", stored |-> TRUE,
                       answer |-> IF send_fault THEN MSG_ADDING_FAILED
                                  ELSE MSG_RESULT_ADDED]
       ELSE /\ results' = results
            /\ out' = [op |-> "submit", stored |-> FALSE, answer |-> MSG_ADDING_FAILED]
    /\ UNCHANGED <<users, sessions, settings>>

\* A submission that arrives after the clock has advanced.
submit_result ==
    \E user_id \in UserIds, exercise_id \in DirectExerciseIds, value \in InputValues :
        result_input_handler(user_id, exercise_id, value, LastDate + 1, FALSE)

\* A submission whose success message cannot be delivered.
submit_result_send_fault ==
    \E user_id \in UserIds, exercise_id \in DirectExerciseIds, value \in InputValues :
        result_input_handler(user_id, exercise_id, value, LastDate + 1, TRUE)

(***************************************************************************)
(* LeaderboardDAO.get_exercise_leaderboard                                 *)
(***************************************************************************)
\* Mutant: the join without the WHERE on User.gender.
leaderboard_rows_any_gender(db, exercise_id, gender) ==
    {i \in DOMAIN db : /\ db[i].user_id \in DOMAIN users
                       /\ db[i].exercise_id = exercise_id}

\* The rows the leaderboard query reads: user_profile_results joined with
\* users, of one exercise and one gender.
leaderboard_rows(db, exercise_id, gender) ==
    {i \in DOMAIN db : /\ db[i].user_id \in DOMAIN users
                       /\ db[i].exercise_id = exercise_id
                       /\ users[db[i].user_id].gender = gender}

\* func.max(result_value) and func.max(date) of one group of the GROUP BY.
group_best_result(db, rows, user_id) ==
    Max({db[i].result_value : i \in {j \in rows : db[j].user_id = user_id}})

group_latest_date(db, rows, user_id) ==
    Max({db[i].date : i \in {j \in rows : db[j].user_id = user_id}})

\* GROUP BY user_id with the two aggregates of the query.
leaderboard_groups(db, exercise_id, gender) ==
    LET rows == leaderboard_rows(db, exercise_id, gender)
    IN  {[user_id |-> u,
          gender |-> users[u].gender,
          best_result |-> group_best_result(db, rows, u),
          latest_date |-> group_latest_date(db, rows, u)]
         : u \in {db[i].user_id : i \in rows}}

\* The direction test both queries use.
is_asap(exercise) == exercise.is_time_based /\ exercise.result_type = ASAP_TIME

\* ORDER BY max(result_value) ASC for the timed speed exercises, DESC for
\* all others.
in_query_order(exercise, first, second) ==
    IF is_asap(exercise)
    THEN first.best_result <= second.best_result
    ELSE first.best_result >= second.best_result

\* The query names no second sort key, so the database may return groups of
\* equal key in any order: every sorted order is a possible answer.
leaderboard_orders(db, exercise, gender) ==
    LET groups == leaderboard_groups(db, exercise.id, gender)
        n == Cardinality(groups)
    IN  {s \in [1..n -> groups] :
            /\ \A i, j \in 1..n : i # j => s[i] # s[j]
            /\ \A i, j \in 1..n : i < j => in_query_order(exercise, s[i], s[j])}

\* Mutant: competition ranking, where entries of equal value share the
\* position of the first of them.
leaderboard_results_shared(exercise, ordered) ==
    [p \in DOMAIN ordered |->
        [position |-> Min({q \in DOMAIN ordered :
                             ordered[q].best_result = ordered[p].best_result}),
         user_id |-> ordered[p].user_id,
         gender |-> ordered[p].gender,
         value |-> ordered[p].best_result,
         unit |-> exercise.unit,
         latest_date |-> ordered[p].latest_date]]

\* enumerate(leaderboard_rows, 1) and the dictionary built for each row.
leaderboard_results(exercise, ordered) ==
    [p \in DOMAIN ordered |->
        [position |-> p,
         user_id |-> ordered[p].user_id,
         gender |-> ordered[p].gender,
         value |-> ordered[p].best_result,
         unit |-> exercise.unit,
         latest_date |-> ordered[p].latest_date]]

\* The answers get_exercise_leaderboard can give on the stored rows db.
get_exercise_leaderboard(db, exercise_id, gender) ==
    LET exercise == find_exercise_by_id(exercise_id)
    IN  IF exercise = None
        THEN {[exercise_found |-> FALSE, results |-> <<>>]}
        ELSE {[exercise_found |-> TRUE, results |-> leaderboard_results(exercise, s)]
              : s \in leaderboard_orders(db, exercise, gender)}

(***************************************************************************)
(* LeaderboardDAO.get_user_ranking                                         *)
(***************************************************************************)
\* Mutant: the aggregate of no row read as 0 (a coalesce) instead of NULL.
user_best_result_coalesced(db, user_id, exercise_id) ==
    LET rows == {i \in DOMAIN db : /\ db[i].user_id = user_id
                                   /\ db[i].exercise_id = exercise_id}
    IN  [best_result |-> Max({0} \cup {db[i].result_value : i \in rows}),
         latest_date |-> Max({0} \cup {db[i].date : i \in rows})]

\* SELECT max(result_value), max(date) WHERE user_id, exercise_id: the
\* aggregate of no row is NULL.
user_best_result(db, user_id, exercise_id) ==
    LET rows == {i \in DOMAIN db : /\ db[i].user_id = user_id
                                   /\ db[i].exercise_id = exercise_id}
    IN  IF rows = {} THEN None
        ELSE [best_result |-> Max({db[i].result_value : i \in rows}),
              latest_date |-> Max({db[i].date : i \in rows})]

\* Mutant: count(user_id) without DISTINCT, which counts rows.
total_users_count_rows(db, exercise_id, gender) ==
    Cardinality(leaderboard_rows(db, exercise_id, gender))

\* count(distinct user_id) of the joined rows of the exercise and gender.
total_users_count(db, exercise_id, gender) ==
    Cardinality({db[i].user_id : i \in leaderboard_rows(db, exercise_id, gender)})

\* The WHERE clause of the better-count query: a smaller value for the
\* timed speed exercises, a larger value otherwise.
is_better_row(exercise, result_value, best_result) ==
    IF is_asap(exercise)
    THEN result_value < best_result
    ELSE result_value > best_result

\* count(distinct user_id) of the joined rows that are better.
better_count(db, exercise, gender, best_result) ==
    Cardinality({db[i].user_id :
        i \in {j \in leaderboard_rows(db, exercise.id, gender) :
                 is_better_row(exercise, db[j].result_value, best_result)}})

get_user_ranking(db, user_id, exercise_id) ==
    LET exercise == find_exercise_by_id(exercise_id)
        user == find_user_by_id(user_id)
        user_best == user_best_result(db, user_id, exercise_id)
    IN  IF exercise = None THEN None
        ELSE IF user = None THEN None
        ELSE IF user_best = None THEN None
        ELSE [position |-> better_count(db, exercise, user.gender,
                                        user_best.best_result) + 1,
              total_users |-> total_users_count(db, exercise_id, user.gender),
              user_id |-> user_id,
              gender |-> user.gender,
              best_result |-> user_best.best_result,
              value |-> user_best.best_result,
              latest_date |-> user_best.latest_date]

(***************************************************************************)
(* The leaderboard window                                                  *)
(***************************************************************************)
\* profile_dialog.get_exercise_leaderboard: the getter of the leaderboard
\* window asks for the leaderboard of the user's gender and for the user's
\* own ranking on the same stored data.
leaderboard_getter ==
    \E user_id \in UserIds, exercise_id \in DirectExerciseIds \cup UnknownExerciseIds :
        /\ IF find_exercise_by_id(exercise_id) = None
           THEN out' = [op |-> "leaderboard", user_id |-> user_id,
                        exercise_id |-> exercise_id, exercise_found |-> FALSE,
                        leaderboard |-> <<>>, user_ranking |-> None]
           ELSE \E board \in get_exercise_leaderboard(results, exercise_id,
                                                      users[user_id].gender) :
                   out' = [op |-> "leaderboard", user_id |-> user_id,
                           exercise_id |-> exercise_id, exercise_found |-> TRUE,
                           leaderboard |-> board.results,
                           user_ranking |-> get_user_ranking(results, user_id, exercise_id)]
        /\ UNCHANGED <<users, results, sessions, settings>>

(***************************************************************************)
(* Coefficient resolution                                                  *)
(***************************************************************************)
\* BaseDAO.find_one_or_none with a name filter: scalar_one_or_none gives
\* None for no row, the row for one row, and raises for several rows.
find_one_or_none(name) ==
    LET found == {e \in ExerciseIds : ProfileExercise[e].name = name}
    IN  IF found = {} THEN [raised |-> FALSE, record |-> None]
        ELSE IF Cardinality(found) = 1
             THEN [raised |-> FALSE, record |-> ProfileExercise[CHOOSE e \in found : TRUE]]
             ELSE [raised |-> TRUE, record |-> None]

\* Mutant: ORDER BY date ASC, which gives the oldest row.
get_latest_result_ascending(db, user_id, exercise_id) ==
    LET rows == {i \in DOMAIN db : /\ db[i].user_id = user_id
                                   /\ db[i].exercise_id = exercise_id}
    IN  IF rows = {} THEN {None}
        ELSE {db[i] : i \in {j \in rows : \A k \in rows : db[j].date <= db[k].date}}

\* UserProfileResultDAO.get_latest_result: ORDER BY date DESC LIMIT 1.  Rows
\* of equal newest date have no second sort key, so each of them is a
\* possible answer.
get_latest_result(db, user_id, exercise_id) ==
    LET rows == {i \in DOMAIN db : /\ db[i].user_id = user_id
                                   /\ db[i].exercise_id = exercise_id}
    IN  IF rows = {} THEN {None}
        ELSE {db[i] : i \in {j \in rows : \A k \in rows : db[k].date <= db[j].date}}

\* str.lower() of one word of a name.
lower(word) == IF word = "Podvesom" THEN "podvesom" ELSE word

\* "подвесом" in name.lower()
has_hanging_weight_marker(name) == \E i \in DOMAIN name : lower(name[i]) = "podvesom"

\* CoefficientData(): every field empty, workout_weight 0.
empty_coefficient_data ==
    [user |-> None, weight |-> None, coefficient_exercise |-> None,
     base_exercise |-> None, base_result |-> None, workout_weight |-> 0]

\* CoefficientData.is_complete: all five fields are truthy.
is_complete(data) ==
    /\ data.user # None
    /\ data.weight # None /\ data.weight.value # 0
    /\ data.coefficient_exercise # None
    /\ data.base_exercise # None
    /\ data.base_result # None

\* Mutant: the variant with a hanging weight without max(weight, 0).
workout_weight_of_unclamped(coefficient_exercise, base_value, user_weight) ==
    IF has_hanging_weight_marker(coefficient_exercise.name)
    THEN 7 * (base_value + user_weight) - 10 * user_weight
    ELSE 7 * base_value

\* The workout weight in tenths of a kilogram: 0.7 of the base value, or for
\* the variant with a hanging weight 0.7 of base value plus body weight,
\* less the body weight, and not below 0.
workout_weight_of(coefficient_exercise, base_value, user_weight) ==
    IF has_hanging_weight_marker(coefficient_exercise.name)
    THEN Max({7 * (base_value + user_weight) - 10 * user_weight, 0})
    ELSE 7 * base_value

\* The texts get_coefficient_data answers with.
MSG_NO_WEIGHT == [text |-> <<"body weight must be entered in the biometrics">>]
MSG_EXERCISE_NOT_FOUND == [text |-> <<"exercise not found">>]
MSG_NO_BASE_CONFIGURED(name) == [text |-> <<"no strength exercise is set for">> \o name]
MSG_ENTER_BASE_RESULT(name) == [text |-> <<"first enter a result for">> \o name]
MSG_READY == [text |-> <<"ready to compute the coefficient">>]

\* What a call of get_coefficient_data ends with: a returned triple, or an
\* exception that leaves the function.
returned(data, ready, message) ==
    [raised |-> FALSE, data |-> data, ready |-> ready, message |-> message]

raised_error(error) ==
    [raised |-> TRUE, error |-> error]

\* get_coefficient_data: the outcomes of one call on the stored rows db.
get_coefficient_data(db, user_id, exercise_id) ==
    LET data0 == empty_coefficient_data
        user == find_user_by_id(user_id)
    IN
    IF user = None \/ user.biometrics = None \/ user.biometrics.weight = 0
    THEN {returned(data0, FALSE, MSG_NO_WEIGHT)}
    ELSE
    LET data1 == [data0 EXCEPT !.user = user,
                               !.weight = [value |-> user.biometrics.weight]]
        coefficient_exercise == find_exercise_by_id(exercise_id)
        data2 == [data1 EXCEPT !.coefficient_exercise = coefficient_exercise]
    IN
    IF coefficient_exercise = None
    THEN {returned(data2, FALSE, MSG_EXERCISE_NOT_FOUND)}
    ELSE IF coefficient_exercise.name \notin DOMAIN COEFFICIENT_BASE_EXERCISES
    THEN {returned(data2, FALSE, MSG_NO_BASE_CONFIGURED(coefficient_exercise.name))}
    ELSE
    LET found == find_one_or_none(COEFFICIENT_BASE_EXERCISES[coefficient_exercise.name])
        base_exercise == found.record
        data3 == [data2 EXCEPT !.base_exercise = base_exercise]
    IN
    IF found.raised
    THEN {raised_error("MultipleResultsFound")}
    ELSE IF base_exercise = None
    \* the message of this return reads base_exercise.name of None
    THEN {raised_error("AttributeError")}
    ELSE
    {IF base_result = None
     THEN returned(data3, FALSE, MSG_ENTER_BASE_RESULT(base_exercise.name))
     ELSE LET data4 == [data3 EXCEPT !.workout_weight =
                           workout_weight_of(coefficient_exercise,
                                             base_result.result_value,
                                             user.biometrics.weight)]
          IN  returned(data4, TRUE, IF is_complete(data4) THEN MSG_READY ELSE None)
     : base_result \in get_latest_result(db, user_id, base_exercise.id)}

\* A call of get_coefficient_data for a user and a coefficient exercise, as
\* on_add_result_click and coefficient_input_handler make it.
coefficient_resolution ==
    \E user_id \in RequestUserIds,
       exercise_id \in CoefficientExerciseIds \cup UnknownExerciseIds :
        /\ \E outcome \in get_coefficient_data(results, user_id, exercise_id) :
              out' = [op |-> "coefficient", user_id |-> user_id,
                      exercise_id |-> exercise_id, outcome |-> outcome]
        /\ UNCHANGED <<users, results, sessions, settings>>

(***************************************************************************)
(* Coefficient submission                                                  *)
(***************************************************************************)
\* The bounds of the repetition count.
MIN_REPS == 1
MAX_REPS == 100

\* What a user types into the repetition input: a count below, at and above
\* the bounds and inside them, or a text that is not a number.
RepsTexts ==
    {[numeric |-> TRUE, value |-> n] :
        n \in {MIN_REPS - 1, MIN_REPS, 8, MAX_REPS, MAX_REPS + 1}}
    \cup {[numeric |-> FALSE, value |-> 0]}

\* round(x, 2) of the quotient numerator / denominator, where the numerator
\* is already in hundredths: the possible results.  The quotient is computed
\* in binary floating point from operands that carry a representation error
\* (45 * 0.7 is 31.499999999999996), so a quotient that lies exactly between
\* two hundredths may be rounded to either of them; every other quotient is
\* rounded to the nearest hundredth.
round(numerator, denominator) ==
    LET quotient == numerator \div denominator
        rest == numerator % denominator
    IN  IF 2 * rest < denominator THEN {quotient}
        ELSE IF 2 * rest > denominator THEN {quotient + 1}
        ELSE {quotient, quotient + 1}

\* Mutant: the division by the body weight is left out.
calculate_coefficient_value_undivided(data, reps) ==
    IF has_hanging_weight_marker(data.coefficient_exercise.name)
    THEN IF data.workout_weight = 0
         THEN round(100 * reps, 1)
         ELSE round(10 * reps * data.workout_weight, 1)
    ELSE round(10 * reps * data.workout_weight, 1)

\* calculate_coefficient_value: the possible results, in hundredths;
\* workout_weight is in tenths of a kilogram and the body weight in
\* kilograms.
calculate_coefficient_value(data, reps) ==
    IF has_hanging_weight_marker(data.coefficient_exercise.name)
    THEN IF data.workout_weight = 0
         THEN round(100 * reps, 1)
         ELSE round(10 * reps * data.workout_weight, 1)
    ELSE round(10 * reps * data.workout_weight, data.weight.value)

\* The texts coefficient_input_handler answers with.
MSG_TOO_FEW_REPS == [text |-> <<"enough joking, the number of repetitions is above", "MIN_REPS">>]
MSG_TOO_MANY_REPS == [text |-> <<"not without a video, at most 100 repetitions", "MAX_REPS">>]
MSG_RESULT_SAVED == [text |-> <<"result saved">>]

\* Mutant: a repetition count equal to MIN_REPS is rejected as well.
reps_rejection_off_by_one(reps) ==
    IF reps <= MIN_REPS THEN MSG_TOO_FEW_REPS
    ELSE IF reps > MAX_REPS THEN MSG_TOO_MANY_REPS
    ELSE None

\* The bounds check of the repetition count: the answer that rejects the
\* count, None when the count passes.
reps_rejection(reps) ==
    IF reps < MIN_REPS THEN MSG_TOO_FEW_REPS
    ELSE IF reps > MAX_REPS THEN MSG_TOO_MANY_REPS
    ELSE None

\* ProfileResultSubmitSchema(exercise_id=exercise_id, result_value=coefficient)
result_data(coefficient_data, exercise_id, coefficient) ==
    [exercise_id |-> exercise_id, result_value |-> coefficient]

\* What coefficient_input_handler leaves in out.
coefficient_input_out(user_id, exercise_id, raised, stored, answer, reps, coefficient, data) ==
    [op |-> "coefficient_input", user_id |-> user_id, exercise_id |-> exercise_id,
     raised |-> raised, stored |-> stored, answer |-> answer, reps |-> reps,
     coefficient |-> coefficient, data |-> data]

\* coefficient_input_handler: a registered user types a repetition count for
\* a coefficient exercise at time now.  An exception leaves the handler and
\* the session is rolled back.
coefficient_input_handler(user_id, exercise_id, text, now) ==
    /\ Len(results) < MaxResults
    /\ \E outcome \in get_coefficient_data(results, user_id, exercise_id) :
          IF outcome.raised
          THEN /\ results' = results
               /\ out' = coefficient_input_out(user_id, exercise_id, TRUE, FALSE,
                                               None, None, None, None)
          ELSE IF ~outcome.ready
          THEN /\ results' = results
               /\ out' = coefficient_input_out(user_id, exercise_id, FALSE, FALSE,
                                               outcome.message, None, None, outcome.data)
          ELSE IF ~text.numeric
          THEN /\ results' = results
               /\ out' = coefficient_input_out(user_id, exercise_id, TRUE, FALSE,
                                               None, None, None, outcome.data)
          ELSE IF reps_rejection(text.value) # None
          THEN /\ results' = results
               /\ out' = coefficient_input_out(user_id, exercise_id, FALSE, FALSE,
                                               reps_rejection(text.value),
                                               [value |-> text.value], None, outcome.data)
          ELSE \E coefficient \in calculate_coefficient_value(outcome.data, text.value) :
               LET schema == result_data(outcome.data, exercise_id, coefficient)
               IN  IF validate_positive_result_value(schema.result_value)
                   THEN /\ results' = add_result_with_validation(
                                          results, user_id, schema.exercise_id,
                                          schema.result_value, now)
                        /\ out' = coefficient_input_out(user_id, exercise_id, FALSE, TRUE,
                                                        MSG_RESULT_SAVED,
                                                        [value |-> text.value],
                                                        [value |-> coefficient],
                                                        outcome.data)
                   ELSE /\ results' = results
                        /\ out' = coefficient_input_out(user_id, exercise_id, TRUE, FALSE,
                                                        None, [value |-> text.value],
                                                        [value |-> coefficient],
                                                        outcome.data)
    /\ UNCHANGED <<users, sessions, settings>>

\* A repetition count that arrives after the clock has advanced.
submit_coefficient ==
    \E user_id \in UserIds, exercise_id \in CoefficientExerciseIds, text \in RepsTexts :
        coefficient_input_handler(user_id, exercise_id, text, LastDate + 1)

(***************************************************************************)
(* The latest result                                                       *)
(***************************************************************************)
\* A submission that arrives at the instant of the newest stored row.
submit_result_same_instant ==
    /\ results # <<>>
    /\ \E user_id \in UserIds, exercise_id \in DirectExerciseIds, value \in InputValues :
          result_input_handler(user_id, exercise_id, value, LastDate, FALSE)

\* A call of UserProfileResultDAO.get_latest_result for a user id and an
\* exercise id, registered or not.
latest_result_query ==
    \E user_id \in RequestUserIds, exercise_id \in DirectExerciseIds \cup UnknownExerciseIds :
        /\ \E latest \in get_latest_result(results, user_id, exercise_id) :
              out' = [op |-> "latest", user_id |-> user_id,
                      exercise_id |-> exercise_id, latest |-> latest]
        /\ UNCHANGED <<users, results, sessions, settings>>

(***************************************************************************)
(* The history of an exercise                                              *)
(***************************************************************************)
\* The orders in which ORDER BY date DESC may return the rows of ids: every
\* id once, the date of each row not above the date of the row before it.
date_descending_orders(db, ids) ==
    {order \in [1..Cardinality(ids) -> ids] :
        /\ \A a, b \in DOMAIN order : a # b => order[a] # order[b]
        /\ \A a, b \in DOMAIN order : a < b => db[order[a]].date >= db[order[b]].date}

\* Mutant: ORDER BY date ascending.
get_history_for_exercise_ascending(db, user_id, exercise_id) ==
    LET rows == {i \in DOMAIN db : /\ db[i].user_id = user_id
                                   /\ db[i].exercise_id = exercise_id}
    IN  {[k \in DOMAIN order |-> db[order[Len(order) + 1 - k]]] :
            order \in date_descending_orders(db, rows)}

\* UserProfileResultDAO.get_history_for_exercise: the rows of the user and
\* the exercise, ORDER BY date DESC.  Rows of equal date have no second sort
\* key, so each of their orders is a possible answer.
get_history_for_exercise(db, user_id, exercise_id) ==
    LET rows == {i \in DOMAIN db : /\ db[i].user_id = user_id
                                   /\ db[i].exercise_id = exercise_id}
    IN  {[k \in DOMAIN order |-> db[order[k]]] :
            order \in date_descending_orders(db, rows)}

\* A call of UserProfileResultDAO.get_history_for_exercise for a user and a
\* direct exercise, as get_exercise_history makes it.
history_query ==
    \E user_id \in UserIds, exercise_id \in DirectExerciseIds :
        /\ \E history \in get_history_for_exercise(results, user_id, exercise_id) :
              out' = [op |-> "history", user_id |-> user_id,
                      exercise_id |-> exercise_id, history |-> history]
        /\ UNCHANGED <<users, results, sessions, settings>>

(***************************************************************************)
(* The completion of a category                                            *)
(***************************************************************************)
\* ProfileExercise.category_name: the category of each exercise of the
\* catalog.
category_name(exercise_id) ==
    CASE exercise_id \in {1, 3, 5} -> "strength"
      [] exercise_id = 2 -> "endurance"
      [] exercise_id \in {4, 6} -> "gymnastics"

\* The names of the profile_categories table; a request may also carry a
\* name that is not in the table.
CategoryNames == {"strength", "endurance", "gymnastics"}
RequestCategoryNames == CategoryNames \cup {"unknown"}

\* Mutant: count(exercise_id) without DISTINCT, the number of rows.
count_unique_exercises_with_results_per_row(db, user_id, category) ==
    Cardinality({i \in DOMAIN db :
                    /\ db[i].exercise_id \in DOMAIN ProfileExercise
                    /\ db[i].user_id = user_id
                    /\ category_name(db[i].exercise_id) = category})

\* UserProfileResultDAO.count_unique_exercises_with_results:
\* count(distinct exercise_id) over the rows of the user joined with the
\* exercises of the category.
count_unique_exercises_with_results(db, user_id, category) ==
    Cardinality({db[i].exercise_id :
                    i \in {j \in DOMAIN db :
                              /\ db[j].exercise_id \in DOMAIN ProfileExercise
                              /\ db[j].user_id = user_id
                              /\ category_name(db[j].exercise_id) = category}})

\* A call of count_unique_exercises_with_results for a user and a category
\* name, in the table or not.
count_query ==
    \E user_id \in UserIds, category \in RequestCategoryNames :
        /\ out' = [op |-> "count", user_id |-> user_id, category_name |-> category,
                   count |-> count_unique_exercises_with_results(results, user_id,
                                                                 category)]
        /\ UNCHANGED <<users, results, sessions, settings>>

(***************************************************************************)
(* Validation against the standards                                        *)
(***************************************************************************)
\* dict.get(key, default)
get(dict, key, default) == IF key \in DOMAIN dict THEN dict[key] ELSE default

\* The empty dict, which is falsy.
empty_dict == [key \in {} |-> None]

\* The gender_standards a submission may be validated against: none, or the
\* minimum and the maximum of the user's gender and level, each of which may
\* be missing.
StandardValues == {None, [value |-> 30], [value |-> 45]}
GenderStandards ==
    {empty_dict} \cup
        {[min_value |-> min, max_value |-> max] : min, max \in StandardValues}

\* The exercise_info a submission may be validated with: none, the two
\* fields of an exercise, or the result type alone.
ExerciseInfos ==
    {empty_dict} \cup
        {[is_time_based |-> t, result_type |-> r] :
            t \in BOOLEAN, r \in {ASAP_TIME, STM_TIME, WEIGHT}} \cup
        {[result_type |-> ASAP_TIME]}

\* The values a standard is compared with: below, at, between and above the
\* bounds.
ValidatedValues == {0, 29, 30, 40, 45, 46}

\* ValueError(f"{text} ({bound} {value})")
ValueError(text, bound, value) ==
    [error |-> "ValueError", text |-> text, bound |-> bound, value |-> value]

\* Mutant: every exercise is validated as one where higher is better.
validate_result_against_standards_higher_is_better(v, gender_standards, exercise_info) ==
    IF DOMAIN gender_standards = {} \/ DOMAIN exercise_info = {}
    THEN None
    ELSE LET min_value == get(gender_standards, "min_value", None)
             max_value == get(gender_standards, "max_value", None)
         IN  CASE min_value # None /\ v < min_value.value ->
                      ValueError("Result is too low", "min", min_value.value)
               [] max_value # None /\ v > max_value.value
                  /\ ~(min_value # None /\ v < min_value.value) ->
                      ValueError("Result is unrealistically high", "max", max_value.value)
               [] OTHER -> None

\* ProfileResultValidatedSchema.validate_result_against_standards: the error
\* it raises, None when it returns self.
validate_result_against_standards(v, gender_standards, exercise_info) ==
    IF DOMAIN gender_standards = {} \/ DOMAIN exercise_info = {}
    THEN None
    ELSE LET min_value == get(gender_standards, "min_value", None)
             max_value == get(gender_standards, "max_value", None)
             is_time_based == get(exercise_info, "is_time_based", FALSE)
             result_type == get(exercise_info, "result_type", None)
             too_low == min_value # None /\ v < min_value.value
             too_high == max_value # None /\ v > max_value.value
         IN  IF is_time_based /\ result_type = ASAP_TIME
             THEN CASE too_high ->
                          ValueError("Time is too slow", "max", max_value.value)
                    [] too_low /\ ~too_high ->
                          ValueError("Time is unrealistically fast", "min", min_value.value)
                    [] OTHER -> None
             ELSE CASE too_low ->
                          ValueError("Result is too low", "min", min_value.value)
                    [] too_high /\ ~too_low ->
                          ValueError("Result is unrealistically high", "max", max_value.value)
                    [] OTHER -> None

\* The construction of a ProfileResultValidatedSchema for a value that has
\* passed validate_positive_result_value.
validate_against_standards ==
    \E v \in ValidatedValues, gender_standards \in GenderStandards,
       exercise_info \in ExerciseInfos :
        /\ validate_positive_result_value(v)
        /\ out' = [op |-> "validate", result_value |-> v,
                   gender_standards |-> gender_standards,
                   exercise_info |-> exercise_info,
                   raised |-> validate_result_against_standards(v, gender_standards,
                                                                exercise_info)]
        /\ UNCHANGED <<users, results, sessions, settings>>

(***************************************************************************)
(* Storage faults                                                          *)
(***************************************************************************)
\* What a statement sent to the database may end with: no fault, or an
\* SQLAlchemyError of the driver or the server.
StorageFaults == {"none", "SQLAlchemyError"}

\* The outcome of a call: the exception that leaves it ("none" for a normal
\* return) and the value it returns.
outcome(raised, value) == [raised |-> raised, returned |-> value]

\* LeaderboardDAO.get_user_ranking inside its try: "except Exception" logs
\* the exception of a failed query and returns None.
get_user_ranking_call(db, user_id, exercise_id, fault) ==
    IF fault # "none"
    THEN outcome("none", None)
    ELSE outcome("none", get_user_ranking(db, user_id, exercise_id))

\* BaseDAO.delete_many: "except SQLAlchemyError" logs the failed delete and
\* falls off the end of the function, which returns None; after a delete
\* that worked, result.rowcount() calls the integer rowcount and raises
\* TypeError.
delete_many(fault) ==
    IF fault # "none"
    THEN outcome("none", None)
    ELSE outcome("TypeError", None)

\* A call of get_user_ranking during which a query may fail.
ranking_query ==
    \E user_id \in UserIds, exercise_id \in DirectExerciseIds, fault \in StorageFaults :
        /\ out' = [op |-> "ranking", user_id |-> user_id, exercise_id |-> exercise_id,
                   fault |-> fault,
                   call |-> get_user_ranking_call(results, user_id, exercise_id, fault)]
        /\ UNCHANGED <<users, results, sessions, settings>>

\* A call of delete_many during which the delete may fail.  The call does
\* not commit, and nothing in the repository calls it, so no stored row
\* changes.
delete_many_call ==
    \E fault \in StorageFaults :
        /\ out' = [op |-> "delete_many", fault |-> fault, call |-> delete_many(fault)]
        /\ UNCHANGED <<users, results, sessions, settings>>

(***************************************************************************)
(* The display form of a value                                             *)
(***************************************************************************)
\* A result value is a float; the values formatted here are kept in tenths
\* (305 is 30.5).  A string is the sequence of its characters.
FormatValues == {300, 305, 450, 750, 6000}

\* int(value): the whole part.
int(value) == value \div 10

\* float.is_integer()
is_integer(value) == value % 10 = 0

\* The character of a decimal digit.
digit(d) == <<"0", "1", "2", "3", "4", "5", "6", "7", "8", "9">>[d + 1]

\* str(n) of a non-negative integer.
RECURSIVE str_int(_)
str_int(n) == IF n < 10 THEN <<digit(n)>> ELSE str_int(n \div 10) \o <<digit(n % 10)>>

\* f"{n:02d}": at least two digits, padded with a zero.
two_digits(n) == IF n < 10 THEN <<"0">> \o str_int(n) ELSE str_int(n)

\* str(value) of a float: the whole part, the point and the decimals, which
\* are "0" for an integral float.
str_float(value) == str_int(int(value)) \o <<".", digit(value % 10)>>

\* f"{value:.2f}"
two_decimals(value) == str_int(int(value)) \o <<".", digit(value % 10), "0">>

\* The exercises a list is formatted for: every unit, time-based or not.
FormatExercises == [unit : MeasurementUnit, is_time_based : BOOLEAN]

\* The lists that are formatted: up to MaxItems items, each with its value.
HistoryData ==
    UNION {[1..n -> [value : FormatValues]] : n \in 0..MaxItems}

\* time_format_for_time_based_exercise: the items after the call.  An item
\* of a time-based exercise gets formatted_value when the unit is SECONDS or
\* MINUTES and is left as it is for every other unit.
time_format_for_time_based_exercise(exercise, history_data) ==
    [k \in DOMAIN history_data |->
        LET item == history_data[k]
        IN  IF exercise.is_time_based
            THEN CASE exercise.unit = SECONDS ->
                          [value |-> item.value,
                           formatted_value |-> str_int(int(item.value) \div 60) \o <<":">>
                                               \o two_digits(int(item.value) % 60)]
                   [] exercise.unit = MINUTES ->
                          [value |-> item.value,
                           formatted_value |-> two_decimals(item.value)]
                   [] OTHER -> item
            ELSE IF is_integer(item.value)
                 THEN [value |-> item.value, formatted_value |-> str_int(int(item.value))]
                 ELSE [value |-> item.value, formatted_value |-> str_float(item.value)]]

\* A call of time_format_for_time_based_exercise for an exercise and a list.
format_history ==
    \E exercise \in FormatExercises, history_data \in HistoryData :
        /\ out' = [op |-> "format", exercise |-> exercise,
                   history_data |->
                       time_format_for_time_based_exercise(exercise, history_data)]
        /\ UNCHANGED <<users, results, sessions, settings>>

(***************************************************************************)
(* The test weeks                                                          *)
(***************************************************************************)
\* GlobalSettingDAO.set_test_week_status: the administrator turns the test
\* week on or off for everybody.
set_test_week_status ==
    \E status \in BOOLEAN :
        /\ settings' = [settings EXCEPT !.test_week_enabled = status]
        /\ out' = [op |-> "set_test_week_status", status |-> status]
        /\ UNCHANGED <<users, results, sessions>>

\* UserSettingDAO.set_user_test_week_override: the override of one user.
set_user_test_week_override ==
    \E user_id \in UserIds, enabled \in BOOLEAN :
        /\ settings' = [settings EXCEPT !.test_week_override[user_id] = enabled]
        /\ out' = [op |-> "set_user_test_week_override", user_id |-> user_id,
                   enabled |-> enabled]
        /\ UNCHANGED <<users, results, sessions>>

\* TestWeekAccessService.can_user_access_week: the global switch, and the
\* user's override when the switch is off.
can_user_access_week(db_settings, user_id) ==
    IF db_settings.test_week_enabled
    THEN TRUE
    ELSE db_settings.test_week_override[user_id]

\* test_weeks_access(session): the call raises TypeError when the session,
\* its one required argument, is not passed.
test_weeks_access(arguments) ==
    IF "session" \in arguments THEN outcome("none", "access") ELSE outcome("TypeError", None)

\* bool() of the coroutine object that can_user_access_week returns when it
\* is called without await: an object is true.
coroutine_is_true == TRUE

\* open_test_weeks_menu: the handler of the test-weeks button.  It calls
\* test_weeks_access() with no argument, and tests the un-awaited call of
\* can_user_access_week.
open_test_weeks_menu ==
    \E user_id \in UserIds :
        /\ LET access == test_weeks_access({})
           IN  IF access.raised # "none"
               THEN out' = [op |-> "open_test_weeks_menu", user_id |-> user_id,
                            raised |-> access.raised,
                            dialog_started |-> FALSE, alert_shown |-> FALSE]
               ELSE out' = [op |-> "open_test_weeks_menu", user_id |-> user_id,
                            raised |-> "none",
                            dialog_started |-> coroutine_is_true,
                            alert_shown |-> ~coroutine_is_true]
        /\ UNCHANGED <<users, results, sessions, settings>>

(***************************************************************************)
(* Concurrent sessions                                                     *)
(***************************************************************************)
\* Mutant: READ UNCOMMITTED, a statement also sees the row another session
\* has flushed and not committed.
visible_rows_dirty(committed, pending) ==
    IF pending = None THEN committed
    ELSE add(committed, pending.user_id, pending.exercise_id, pending.result_value,
             pending.date)

\* The rows a statement of a session reads.  The engine is created with the
\* isolation level of the server and the decorator sets none unless asked,
\* which is READ COMMITTED: each statement reads the rows committed when it
\* starts, and never the row another session has flushed and not committed.
visible_rows(committed, pending) == committed

\* result_input_handler up to its return: the row is added and flushed in
\* the session of the handler, and is not committed yet.
result_input_flush ==
    /\ sessions.writer = None
    /\ Len(results) < MaxCommitted
    /\ \E user_id \in UserIds, exercise_id \in DirectExerciseIds, value \in ResultValues :
          /\ validate_positive_result_value(value)
          /\ sessions' = [sessions EXCEPT !.writer =
                             [user_id |-> user_id, exercise_id |-> exercise_id,
                              result_value |-> value, date |-> LastDate + 1]]
    /\ UNCHANGED <<users, results, out, settings>>

\* connection(commit=True) after the handler returned: session.commit().
result_input_commit ==
    /\ sessions.writer # None
    /\ results' = add(results, sessions.writer.user_id, sessions.writer.exercise_id,
                      sessions.writer.result_value, sessions.writer.date)
    /\ sessions' = [sessions EXCEPT !.writer = None]
    /\ UNCHANGED <<users, out, settings>>

\* connection: the commit raises and the session is rolled back.
result_input_rollback ==
    /\ sessions.writer # None
    /\ sessions' = [sessions EXCEPT !.writer = None]
    /\ UNCHANGED <<users, results, out, settings>>

\* No request of the reading session is between two of its statements.
reader_is_idle == IF sessions.reader = None THEN TRUE ELSE sessions.reader.pc = "done"

\* LeaderboardDAO.get_exercise_leaderboard in a session of its own: the
\* aggregation is one SELECT statement.
leaderboard_read ==
    /\ reader_is_idle
    /\ \E exercise_id \in DirectExerciseIds, gender \in Gender :
          \E board \in get_exercise_leaderboard(
                           visible_rows(results, sessions.writer), exercise_id, gender) :
              sessions' = [sessions EXCEPT !.reader =
                              [op |-> "leaderboard", pc |-> "done",
                               exercise_id |-> exercise_id, gender |-> gender,
                               leaderboard |-> board.results]]
    /\ UNCHANGED <<users, results, out, settings>>

\* LeaderboardDAO.get_user_ranking, first statement: the user's best result.
\* The call returns None when the user has no result.
ranking_user_best ==
    /\ reader_is_idle
    /\ \E user_id \in UserIds, exercise_id \in DirectExerciseIds :
          LET user_best == user_best_result(visible_rows(results, sessions.writer),
                                            user_id, exercise_id)
          IN  sessions' = [sessions EXCEPT !.reader =
                  IF user_best = None
                  THEN [op |-> "ranking", pc |-> "done", user_id |-> user_id,
                        exercise_id |-> exercise_id, user_ranking |-> None]
                  ELSE [op |-> "ranking", pc |-> "total_users", user_id |-> user_id,
                        exercise_id |-> exercise_id, user_best |-> user_best]]
    /\ UNCHANGED <<users, results, out, settings>>

\* get_user_ranking, second statement: the number of participants.
ranking_total_users ==
    /\ sessions.reader # None
    /\ sessions.reader.pc = "total_users"
    /\ sessions' = [sessions EXCEPT !.reader =
           [op |-> "ranking", pc |-> "better_count", user_id |-> @.user_id,
            exercise_id |-> @.exercise_id, user_best |-> @.user_best,
            total_users |-> total_users_count(visible_rows(results, sessions.writer),
                                              @.exercise_id, users[@.user_id].gender)]]
    /\ UNCHANGED <<users, results, out, settings>>

\* get_user_ranking, third statement: the number of users with a better
\* result, and the returned ranking.
ranking_better_count ==
    /\ sessions.reader # None
    /\ sessions.reader.pc = "better_count"
    /\ sessions' = [sessions EXCEPT !.reader =
           [op |-> "ranking", pc |-> "done", user_id |-> @.user_id,
            exercise_id |-> @.exercise_id,
            user_ranking |->
                [position |-> better_count(visible_rows(results, sessions.writer),
                                           find_exercise_by_id(@.exercise_id),
                                           users[@.user_id].gender,
                                           @.user_best.best_result) + 1,
                 total_users |-> @.total_users,
                 user_id |-> @.user_id,
                 gender |-> users[@.user_id].gender,
                 best_result |-> @.user_best.best_result,
                 value |-> @.user_best.best_result,
                 latest_date |-> @.user_best.latest_date]]]
    /\ UNCHANGED <<users, results, out, settings>>

Next ==
    \/ submit_result
    \/ leaderboard_getter


Spec == Init /\ [][Next]_vars

\* The coefficient entry: submissions and coefficient resolutions.
InitCoefficient ==
    /\ users = registered_users(FEMALE)
    /\ results = <<>>
    /\ out = [op |-> "init"]
    /\ sessions = no_sessions
    /\ settings = default_settings

NextCoefficient ==
    \/ submit_result
    \/ coefficient_resolution

SpecCoefficient == InitCoefficient /\ [][NextCoefficient]_vars

\* The coefficient submission: direct submissions and repetition counts.
NextCoefficientInput ==
    \/ submit_result
    \/ submit_coefficient

SpecCoefficientInput == InitCoefficient /\ [][NextCoefficientInput]_vars

\* The latest result: submissions, also at equal instants, and queries.
NextLatest ==
    \/ submit_result
    \/ submit_result_same_instant
    \/ latest_result_query

SpecLatest == InitCoefficient /\ [][NextLatest]_vars

\* The history of an exercise: submissions, also at equal instants, and
\* history queries.
NextHistory ==
    \/ submit_result
    \/ submit_result_same_instant
    \/ history_query

SpecHistory == InitCoefficient /\ [][NextHistory]_vars

\* The completion of a category: direct submissions, repetition counts and
\* count queries.
NextCompletion ==
    \/ submit_result
    \/ submit_coefficient
    \/ count_query

SpecCompletion == InitCoefficient /\ [][NextCompletion]_vars

\* The validation of a value against the standards, for every value,
\* standard and exercise of the bounded sets.
NextValidation ==
    \/ validate_against_standards

SpecValidation == Init /\ [][NextValidation]_vars

\* Storage faults: submissions, and repository calls during which a
\* statement may fail.
NextFault ==
    \/ submit_result
    \/ ranking_query
    \/ delete_many_call

SpecFault == Init /\ [][NextFault]_vars

\* The display form: lists of values formatted for every kind of exercise.
NextFormat ==
    \/ format_history

SpecFormat == Init /\ [][NextFormat]_vars

\* The direct submission with its answers: submissions whose answer is
\* delivered and submissions whose success message is not.
NextSubmission ==
    \/ submit_result
    \/ submit_result_same_instant
    \/ submit_result_send_fault

SpecSubmission == InitCoefficient /\ [][NextSubmission]_vars

\* The test weeks: the settings are changed and the menu is opened.
NextTestWeek ==
    \/ set_test_week_status
    \/ set_user_test_week_override
    \/ open_test_weeks_menu

SpecTestWeek == Init /\ [][NextTestWeek]_vars

\* Concurrent sessions: a session that submits and commits, and a session
\* that reads the leaderboard and the ranking statement by statement.
NextConcurrent ==
    \/ result_input_flush
    \/ result_input_commit
    \/ result_input_rollback
    \/ leaderboard_read
    \/ ranking_user_best
    \/ ranking_total_users
    \/ ranking_better_count

SpecConcurrent == Init /\ [][NextConcurrent]_vars

(***************************************************************************)
(* Vocabulary of the properties                                            *)
(***************************************************************************)
\* The leaderboard window answered for an exercise of the catalog.
Board == out.op = "leaderboard" /\ out.exercise_found

\* The entries of the answered leaderboard, as positions of the list.
Entries == DOMAIN out.leaderboard

\* The stored values of one user for one exercise.
StoredValues(user_id, exercise_id) ==
    {results[i].result_value :
        i \in {j \in DOMAIN results : /\ results[j].user_id = user_id
                                      /\ results[j].exercise_id = exercise_id}}

HasResult(user_id, exercise_id) == StoredValues(user_id, exercise_id) # {}

\* The best result as the specification defines it: the smallest value for a
\* timed speed exercise, the greatest value otherwise.
BestValue(user_id, exercise_id) ==
    IF is_asap(ProfileExercise[exercise_id])
    THEN Min(StoredValues(user_id, exercise_id))
    ELSE Max(StoredValues(user_id, exercise_id))

\* a is a strictly better value than b for the exercise.
StrictlyBetter(exercise_id, a, b) ==
    IF is_asap(ProfileExercise[exercise_id]) THEN a < b ELSE a > b

\* The users of one gender with at least one result for the exercise.
Participants(exercise_id, gender) ==
    {u \in UserIds : users[u].gender = gender /\ HasResult(u, exercise_id)}

\* The rows of the users of one gender.
RowsOfGender(gender) ==
    SelectSeq(results, LAMBDA row : users[row.user_id].gender = gender)

(***************************************************************************)
(* C1                                                                      *)
(***************************************************************************)
\* C1: every entry of the leaderboard carries the user's best result as its
\* value: the greatest stored value, or the smallest stored value when the
\* exercise is a timed speed (ASAP_TIME) exercise.
C1_ValueIsBestResult ==
    Board =>
        \A p \in Entries :
            out.leaderboard[p].value =
                BestValue(out.leaderboard[p].user_id, out.exercise_id)

(***************************************************************************)
(* C2                                                                      *)
(***************************************************************************)
\* C2: for a user present in the leaderboard, the position get_user_ranking
\* returns is 1 plus the number of other users of the same gender whose best
\* result is strictly better than the user's best result.
C2_PositionCountsBetterUsers ==
    (Board /\ out.user_ranking # None) =>
        out.user_ranking.position =
            1 + Cardinality(
                  {v \in Participants(out.exercise_id, users[out.user_id].gender) \ {out.user_id} :
                      StrictlyBetter(out.exercise_id,
                                     BestValue(v, out.exercise_id),
                                     BestValue(out.user_id, out.exercise_id))})

(***************************************************************************)
(* C3                                                                      *)
(***************************************************************************)
\* C3: on the same stored data the position get_user_ranking reports for a
\* user is the position of that user's entry in the leaderboard of the
\* user's gender, for every user with a result for the exercise.
C3_RankingMatchesLeaderboard ==
    (Board /\ HasResult(out.user_id, out.exercise_id)) =>
        /\ out.user_ranking # None
        /\ \E p \in Entries :
              /\ out.leaderboard[p].user_id = out.user_id
              /\ out.leaderboard[p].position = out.user_ranking.position

(***************************************************************************)
(* C4                                                                      *)
(***************************************************************************)
\* C4: the leaderboard is ordered by the users' best values: non-increasing
\* for every exercise that is not a timed speed exercise, non-decreasing for
\* the timed speed exercises.
C4_OrderedByBestValue ==
    Board =>
        \A p, q \in Entries :
            p < q =>
                ~StrictlyBetter(out.exercise_id,
                                BestValue(out.leaderboard[q].user_id, out.exercise_id),
                                BestValue(out.leaderboard[p].user_id, out.exercise_id))

(***************************************************************************)
(* C5                                                                      *)
(***************************************************************************)
\* C5: the positions of a leaderboard of N entries are 1, 2, ..., N in list
\* order, without gaps and without shared positions, also when users tie.
C5_PositionsAreSequential ==
    Board =>
        /\ Entries = 1..Cardinality(Participants(out.exercise_id, users[out.user_id].gender))
        /\ \A p \in Entries : out.leaderboard[p].position = p
        /\ \A p, q \in Entries :
              p # q => out.leaderboard[p].user_id # out.leaderboard[q].user_id

\* Three users with bests 30, 30 and 45 on the timed speed exercise.
C5_Witness ==
    /\ Board
    /\ is_asap(ProfileExercise[out.exercise_id])
    /\ Entries = 1..3
    /\ out.leaderboard[1].value = 30
    /\ out.leaderboard[2].value = 30
    /\ out.leaderboard[3].value = 45
    /\ out.leaderboard[2].position = 2

(***************************************************************************)
(* C6                                                                      *)
(***************************************************************************)
\* C6: ranking never crosses genders: every entry of the leaderboard is a
\* user of the requested gender, and the position and total_users of
\* get_user_ranking are what the rows of the user's own gender alone give.
C6_NoCrossGender ==
    Board =>
        /\ \A p \in Entries :
              /\ out.leaderboard[p].gender = users[out.user_id].gender
              /\ users[out.leaderboard[p].user_id].gender = users[out.user_id].gender
        /\ out.user_ranking # None =>
              LET own == get_user_ranking(RowsOfGender(users[out.user_id].gender),
                                          out.user_id, out.exercise_id)
              IN  /\ own # None
                  /\ out.user_ranking.position = own.position
                  /\ out.user_ranking.total_users = own.total_users

\* A ranked user while a user of the other gender holds a better result for
\* the same exercise.
C6_Witness ==
    /\ Board
    /\ out.user_ranking # None
    /\ \E v \in UserIds :
          /\ users[v].gender # users[out.user_id].gender
          /\ HasResult(v, out.exercise_id)
          /\ StrictlyBetter(out.exercise_id,
                            BestValue(v, out.exercise_id),
                            out.user_ranking.best_result)

(***************************************************************************)
(* C7                                                                      *)
(***************************************************************************)
\* C7: for a user without a stored result for the exercise get_user_ranking
\* returns None and the leaderboard has no entry for that user; when no user
\* of the gender has a result the leaderboard is the empty list.
C7_NoResultNoRank ==
    Board =>
        /\ ~HasResult(out.user_id, out.exercise_id) => out.user_ranking = None
        /\ \A p \in Entries : HasResult(out.leaderboard[p].user_id, out.exercise_id)
        /\ Participants(out.exercise_id, users[out.user_id].gender) = {} =>
              out.leaderboard = <<>>

\* A user without a result asks for a leaderboard that other users of the
\* same gender are on, while the user has results for another exercise.
C7_Witness ==
    /\ Board
    /\ ~HasResult(out.user_id, out.exercise_id)
    /\ \E e \in DirectExerciseIds : HasResult(out.user_id, e)
    /\ out.user_ranking = None
    /\ out.leaderboard # <<>>

(***************************************************************************)
(* C8                                                                      *)
(***************************************************************************)
\* C8: total_users is the number of distinct users of the requesting user's
\* gender with at least one result for the exercise, which is the number of
\* entries of the leaderboard of that exercise and gender.
C8_TotalUsersCountsParticipants ==
    (Board /\ out.user_ranking # None) =>
        /\ out.user_ranking.total_users =
              Cardinality(Participants(out.exercise_id, users[out.user_id].gender))
        /\ out.user_ranking.total_users = Len(out.leaderboard)

\* Two participants, one of them with two stored rows.
C8_Witness ==
    /\ Board
    /\ out.user_ranking # None
    /\ out.user_ranking.total_users = 2
    /\ Cardinality(leaderboard_rows(results, out.exercise_id,
                                    users[out.user_id].gender)) = 3

(***************************************************************************)
(* C9                                                                      *)
(***************************************************************************)
\* C9: the order of the leaderboard entries is deterministic: every call of
\* get_exercise_leaderboard on the same stored data returns the list that
\* this call returned, also when users have equal best values.
C9_OrderIsDeterministic ==
    Board =>
        \A board \in get_exercise_leaderboard(results, out.exercise_id,
                                              users[out.user_id].gender) :
            board.results = out.leaderboard
(***************************************************************************)
(* C10                                                                     *)
(***************************************************************************)
\* C10: coefficient resolution is total: every call of get_coefficient_data
\* returns, and returns either ready with the data bundle or not ready with
\* a non-empty reason; it never raises, also when the configured base
\* exercise is missing from the catalog.
C10_ResolutionIsTotal ==
    out.op = "coefficient" =>
        /\ ~out.outcome.raised
        /\ \/ out.outcome.ready
           \/ /\ out.outcome.message # None
              /\ out.outcome.message.text # <<>>

(***************************************************************************)
(* Vocabulary of the coefficient properties                                *)
(***************************************************************************)
\* The user is registered and has a body weight in the biometrics.
HasBodyWeight(user_id) ==
    /\ user_id \in DOMAIN users
    /\ users[user_id].biometrics # None
    /\ users[user_id].biometrics.weight # 0

\* The catalog exercises that carry the name.
ExercisesNamed(name) == {e \in ExerciseIds : ProfileExercise[e].name = name}

\* The number of the first precondition of the resolution protocol that is
\* unmet for the request, 0 when all five are met: (1) the user has a body
\* weight, (2) the coefficient exercise exists, (3) a base exercise is
\* configured for it, (4) the base exercise exists in the catalog, (5) the
\* user has a result for the base exercise.
FirstUnmet(user_id, exercise_id) ==
    IF ~HasBodyWeight(user_id) THEN 1
    ELSE IF exercise_id \notin ExerciseIds THEN 2
    ELSE IF ProfileExercise[exercise_id].name \notin DOMAIN COEFFICIENT_BASE_EXERCISES THEN 3
    ELSE LET base == ExercisesNamed(COEFFICIENT_BASE_EXERCISES[ProfileExercise[exercise_id].name])
         IN  IF base = {} THEN 4
             ELSE IF \A b \in base : ~HasResult(user_id, b) THEN 5
             ELSE 0

\* The text of the return for a base exercise that the catalog does not
\* hold.
MSG_BASE_EXERCISE_MISSING(name) == [text |-> <<"base exercise is not in the database">> \o name]

\* The reason of the protocol for the unmet precondition n of a request.
Reason(n, exercise_id) ==
    CASE n = 1 -> MSG_NO_WEIGHT
      [] n = 2 -> MSG_EXERCISE_NOT_FOUND
      [] n = 3 -> MSG_NO_BASE_CONFIGURED(ProfileExercise[exercise_id].name)
      [] n = 4 -> MSG_BASE_EXERCISE_MISSING(
                      COEFFICIENT_BASE_EXERCISES[ProfileExercise[exercise_id].name])
      [] n = 5 -> MSG_ENTER_BASE_RESULT(
                      COEFFICIENT_BASE_EXERCISES[ProfileExercise[exercise_id].name])

\* A call of get_coefficient_data has answered.
Resolved == out.op = "coefficient"

(***************************************************************************)
(* C11                                                                     *)
(***************************************************************************)
\* C11: get_coefficient_data checks its five preconditions in the fixed
\* order and returns, not ready, the reason of the first unmet one; it is
\* ready exactly when none is unmet; the five reasons of an exercise are
\* pairwise distinct.
C11_FirstUnmetReason ==
    Resolved =>
        LET n == FirstUnmet(out.user_id, out.exercise_id)
        IN  /\ ~out.outcome.raised
            /\ out.outcome.ready <=> n = 0
            /\ n # 0 => out.outcome.message = Reason(n, out.exercise_id)
            /\ \A e \in {x \in ExerciseIds :
                            ProfileExercise[x].name \in DOMAIN COEFFICIENT_BASE_EXERCISES} :
                  \A i, j \in 1..5 : i # j => Reason(i, e) # Reason(j, e)

(***************************************************************************)
(* C12                                                                     *)
(***************************************************************************)
\* C12: for a user id that is not registered the resolution returns a reason
\* that differs from the reason it returns for a registered user without a
\* recorded body weight.
C12_UnknownUserIsDistinct ==
    (Resolved /\ out.user_id \notin DOMAIN users) =>
        /\ ~out.outcome.raised
        /\ ~out.outcome.ready
        /\ \A u \in {v \in DOMAIN users : ~HasBodyWeight(v)} :
              \A other \in get_coefficient_data(results, u, out.exercise_id) :
                  other.raised \/ other.message # out.outcome.message

(***************************************************************************)
(* C13                                                                     *)
(***************************************************************************)
\* C13: whenever get_coefficient_data returns ready, the bundle holds the
\* user, the weight, the coefficient exercise, the base exercise and the
\* latest result of the base exercise, is_complete() is true and the message
\* is the ready text.
C13_ReadyBundleIsComplete ==
    (Resolved /\ ~out.outcome.raised /\ out.outcome.ready) =>
        /\ out.outcome.data.user # None
        /\ out.outcome.data.weight # None
        /\ out.outcome.data.coefficient_exercise # None
        /\ out.outcome.data.base_exercise # None
        /\ out.outcome.data.base_result # None
        /\ is_complete(out.outcome.data)
        /\ out.outcome.message = MSG_READY

(***************************************************************************)
(* C14                                                                     *)
(***************************************************************************)
\* The name of the exercise holds the marker of the variant with a hanging
\* weight, in either spelling.
Assisted(exercise_id) ==
    \E i \in DOMAIN ProfileExercise[exercise_id].name :
        ProfileExercise[exercise_id].name[i] \in {"podvesom", "Podvesom"}

\* The stored rows of one user for one exercise.
RowsOf(user_id, exercise_id) ==
    {i \in DOMAIN results : /\ results[i].user_id = user_id
                            /\ results[i].exercise_id = exercise_id}

\* The rows of the pair that no other row of the pair is newer than.
NewestRowsOf(user_id, exercise_id) ==
    {i \in RowsOf(user_id, exercise_id) :
        \A j \in RowsOf(user_id, exercise_id) : results[j].date <= results[i].date}

\* The workout weight of the specification, in tenths of a kilogram.
ExpectedWorkoutWeight(exercise_id, base_value, user_weight) ==
    IF Assisted(exercise_id)
    THEN Max({0, 7 * (base_value + user_weight) - 10 * user_weight})
    ELSE 7 * base_value

\* C14: on a ready resolution workout_weight is computed from the newest
\* (not the best) result of the base exercise: max(0, (base + weight) * 0.7
\* - weight) for the variant with a hanging weight, base * 0.7 otherwise, and
\* is never negative; base 100, weight 80 gives 70; assisted, base 50, weight
\* 80 gives 11; assisted, base 0, weight 80 gives 0.
C14_WorkoutWeightFromLatest ==
    /\ (Resolved /\ ~out.outcome.raised /\ out.outcome.ready) =>
          /\ out.outcome.data.workout_weight >= 0
          /\ \E b \in ExercisesNamed(
                        COEFFICIENT_BASE_EXERCISES[ProfileExercise[out.exercise_id].name]) :
                \E i \in NewestRowsOf(out.user_id, b) :
                    out.outcome.data.workout_weight =
                        ExpectedWorkoutWeight(out.exercise_id, results[i].result_value,
                                              users[out.user_id].biometrics.weight)
    /\ workout_weight_of(ProfileExercise[3], 100, 80) = 700
    /\ workout_weight_of(ProfileExercise[4], 50, 80) = 110
    /\ workout_weight_of(ProfileExercise[4], 0, 80) = 0

\* A ready resolution of the variant with a hanging weight for a user whose
\* newest base result (30) is below an older one (45): the weight is clamped
\* to 0.
C14_Witness ==
    /\ Resolved
    /\ ~out.outcome.raised
    /\ out.outcome.ready
    /\ Assisted(out.exercise_id)
    /\ out.outcome.data.workout_weight = 0
    /\ \E i, j \in RowsOf(out.user_id, 1) :
          /\ i < j
          /\ results[i].result_value = 45
          /\ results[j].result_value = 30
          /\ j \in NewestRowsOf(out.user_id, 1)

(***************************************************************************)
(* Vocabulary of the coefficient submission properties                     *)
(***************************************************************************)
\* coefficient_input_handler has answered.
CoefficientInput == out.op = "coefficient_input"

\* The handler got as far as computing a coefficient.
Computed == CoefficientInput /\ out.coefficient # None

Abs(x) == IF x < 0 THEN -x ELSE x

\* A bundle as calculate_coefficient_value reads it.
Bundle(exercise_id, workout_weight, weight) ==
    [empty_coefficient_data EXCEPT !.coefficient_exercise = ProfileExercise[exercise_id],
                                   !.workout_weight = workout_weight,
                                   !.weight = [value |-> weight]]

C16_RepsBounds ==
    /\ MSG_TOO_FEW_REPS # MSG_TOO_MANY_REPS
    /\ [][(CoefficientInput' /\ out'.reps # None) =>
            /\ out'.reps.value < MIN_REPS =>
                  /\ out'.answer = MSG_TOO_FEW_REPS
                  /\ out'.coefficient = None
                  /\ ~out'.stored
                  /\ results' = results
            /\ out'.reps.value > MAX_REPS =>
                  /\ out'.answer = MSG_TOO_MANY_REPS
                  /\ out'.coefficient = None
                  /\ ~out'.stored
                  /\ results' = results
            /\ (MIN_REPS <= out'.reps.value /\ out'.reps.value <= MAX_REPS) =>
                  /\ out'.answer \notin {MSG_TOO_FEW_REPS, MSG_TOO_MANY_REPS}
                  /\ out'.coefficient # None]_vars

\* A count above MAX_REPS was rejected after MIN_REPS repetitions had been
\* stored for the same exercise.
C16_Witness ==
    /\ CoefficientInput
    /\ out.reps # None
    /\ out.reps.value = MAX_REPS + 1
    /\ out.answer = MSG_TOO_MANY_REPS
    /\ HasResult(out.user_id, out.exercise_id)

(***************************************************************************)
(* C17                                                                     *)
(***************************************************************************)
\* The repetition count the handler read is inside [MIN_REPS, MAX_REPS].
RepsInRange(answer) ==
    /\ answer.reps # None
    /\ MIN_REPS <= answer.reps.value
    /\ answer.reps.value <= MAX_REPS

\* The history of a pair: its rows in stored order.
History(db, user_id, exercise_id) ==
    SelectSeq(db, LAMBDA row : row.user_id = user_id /\ row.exercise_id = exercise_id)

\* C17: a coefficient submission stores a result only when the resolution
\* was ready and the count in range; then exactly one row is added, for the
\* coefficient exercise, with the computed coefficient as its value, and the
\* results of the base exercise are unchanged; when the resolution is not
\* ready the handler stores nothing and answers with the resolution's reason.
C17_StoresOnlyWhenReady ==
    [][CoefficientInput' =>
        LET n == FirstUnmet(out'.user_id, out'.exercise_id)
        IN  /\ out'.stored <=> results' # results
            /\ out'.stored <=> (n = 0 /\ RepsInRange(out'))
            /\ out'.stored =>
                  /\ Len(results') = Len(results) + 1
                  /\ \A i \in DOMAIN results : results'[i] = results[i]
                  /\ results'[Len(results')].user_id = out'.user_id
                  /\ results'[Len(results')].exercise_id = out'.exercise_id
                  /\ results'[Len(results')].result_value = out'.coefficient.value
                  /\ \A b \in ExercisesNamed(
                                 COEFFICIENT_BASE_EXERCISES[ProfileExercise[out'.exercise_id].name]) :
                        History(results', out'.user_id, b) = History(results, out'.user_id, b)
            /\ n # 0 =>
                  /\ results' = results
                  /\ ~out'.raised
                  /\ out'.answer = Reason(n, out'.exercise_id)]_vars

(***************************************************************************)
(* C18                                                                     *)
(***************************************************************************)
\* The pairs of a user and an exercise.
Pairs == UserIds \X ExerciseIds

\* C18: submitting is append-only: no step overwrites or deletes a stored
\* row; after a successful submission the history of the submitted pair has
\* exactly one more row, every row stored before is still there with its
\* value and timestamp, and the history of every other pair is unchanged.
C18_AppendOnly ==
    [][/\ Len(results') >= Len(results)
       /\ \A i \in DOMAIN results : results'[i] = results[i]
       /\ (out'.op \in {"submit", "coefficient_input"} /\ out'.stored) =>
             \E pair \in Pairs :
                /\ Len(History(results', pair[1], pair[2])) =
                      Len(History(results, pair[1], pair[2])) + 1
                /\ SubSeq(History(results', pair[1], pair[2]), 1,
                          Len(History(results, pair[1], pair[2]))) =
                      History(results, pair[1], pair[2])
                /\ \A other \in Pairs \ {pair} :
                      History(results', other[1], other[2]) =
                          History(results, other[1], other[2])]_vars

\* A pair with two stored rows of different values, the second just stored.
C18_Witness ==
    /\ out.op = "submit"
    /\ out.stored
    /\ \E pair \in Pairs :
          /\ Len(History(results, pair[1], pair[2])) = 2
          /\ History(results, pair[1], pair[2])[1].result_value #
                History(results, pair[1], pair[2])[2].result_value
          /\ results[Len(results)].user_id = pair[1]
          /\ results[Len(results)].exercise_id = pair[2]

(***************************************************************************)
(* C19                                                                     *)
(***************************************************************************)
\* C19: every stored result value is non-negative in every reachable state;
\* a submission with a negative value is rejected by the submit schema and
\* stores no row.
C19_ValuesAreNonNegative ==
    \A i \in DOMAIN results : results[i].result_value >= 0

\* A direct submission was rejected (the model rejects only the negative
\* value) while rows of direct and of coefficient submissions are stored.
C19_Witness ==
    /\ out.op = "submit"
    /\ ~out.stored
    /\ \E i, j \in DOMAIN results :
          /\ results[i].exercise_id \in DirectExerciseIds
          /\ results[j].exercise_id \in CoefficientExerciseIds

(***************************************************************************)
(* C20                                                                     *)
(***************************************************************************)
\* C20: get_latest_result(user, exercise) returns None exactly when the pair
\* has no stored row; otherwise it returns a stored row of that pair whose
\* timestamp is not below the timestamp of any row of the pair; it never
\* returns a row of another user or exercise.
C20_LatestResult ==
    out.op = "latest" =>
        /\ out.latest = None <=> RowsOf(out.user_id, out.exercise_id) = {}
        /\ out.latest # None =>
              /\ out.latest.user_id = out.user_id
              /\ out.latest.exercise_id = out.exercise_id
              /\ \E i \in RowsOf(out.user_id, out.exercise_id) : results[i] = out.latest
              /\ \A j \in RowsOf(out.user_id, out.exercise_id) :
                    results[j].date <= out.latest.date

\* The pair has an older row and two rows of the newest instant, and the
\* answer is one of the two.
C20_Witness ==
    /\ out.op = "latest"
    /\ out.latest # None
    /\ Cardinality(NewestRowsOf(out.user_id, out.exercise_id)) = 2
    /\ Cardinality(RowsOf(out.user_id, out.exercise_id)) = 3

(***************************************************************************)
(* C21                                                                     *)
(***************************************************************************)
\* C21: get_latest_result is deterministic when timestamps tie: on the
\* stored data of the answer, every row that get_latest_result may return for
\* the pair is the row that it returned.
C21_LatestIsDeterministic ==
    out.op = "latest" =>
        \A latest \in get_latest_result(results, out.user_id, out.exercise_id) :
            latest = out.latest

(***************************************************************************)
(* C22                                                                     *)
(***************************************************************************)
\* C22: get_history_for_exercise(user, exercise) returns exactly the stored
\* rows of the pair, each once, ordered by timestamp non-increasing, and its
\* first element has the timestamp of the row returned by get_latest_result.
C22_HistoryNewestFirst ==
    out.op = "history" =>
        LET rows == RowsOf(out.user_id, out.exercise_id)
        IN  /\ Len(out.history) = Cardinality(rows)
            /\ \A i \in rows :
                  Cardinality({k \in DOMAIN out.history : out.history[k] = results[i]}) = 1
            /\ \A k \in DOMAIN out.history :
                  /\ out.history[k].user_id = out.user_id
                  /\ out.history[k].exercise_id = out.exercise_id
            /\ \A a, b \in DOMAIN out.history :
                  a < b => out.history[a].date >= out.history[b].date
            /\ \A latest \in get_latest_result(results, out.user_id, out.exercise_id) :
                  IF rows = {} THEN latest = None
                  ELSE /\ latest # None
                       /\ latest.date = out.history[1].date

\* The history of a pair with two rows of the same instant, while a row of
\* another pair is stored as well.
C22_Witness ==
    /\ out.op = "history"
    /\ Len(out.history) = 2
    /\ out.history[1].date = out.history[2].date
    /\ Len(results) = 3

(***************************************************************************)
(* C23                                                                     *)
(***************************************************************************)
\* The exercises of the category for which the user has a stored row.
FilledExercises(db, user_id, category) ==
    {e \in ExerciseIds :
        /\ category_name(e) = category
        /\ \E i \in DOMAIN db : db[i].user_id = user_id /\ db[i].exercise_id = e}

\* C23: count_unique_exercises_with_results(user, category) is the number of
\* distinct exercises of the category for which the user has a stored row; a
\* further result for an exercise the user already has a result for leaves
\* the count unchanged, and a result of another user or of an exercise of
\* another category leaves it unchanged as well.
C23_CountsDistinctExercises ==
    [][/\ out'.op = "count" =>
              out'.count = Cardinality(FilledExercises(results', out'.user_id,
                                                       out'.category_name))
       /\ Len(results') = Len(results) + 1 =>
              LET row == results'[Len(results')]
              IN  \A user_id \in UserIds, category \in CategoryNames :
                      (\/ row.user_id # user_id
                       \/ category_name(row.exercise_id) # category
                       \/ row.exercise_id \in FilledExercises(results, user_id, category))
                      => count_unique_exercises_with_results(results', user_id, category)
                            = count_unique_exercises_with_results(results, user_id, category)]_vars

\* The count of a user with three rows in two exercises of the category.
C23_Witness ==
    /\ out.op = "count"
    /\ out.count = 2
    /\ Cardinality({i \in DOMAIN results :
                       /\ results[i].user_id = out.user_id
                       /\ category_name(results[i].exercise_id) = out.category_name}) = 3

(***************************************************************************)
(* C24                                                                     *)
(***************************************************************************)
\* The lower and the upper bound of the validation of the answer, None when
\* the standards have none.
MinOf(o) == IF "min_value" \in DOMAIN o.gender_standards
            THEN o.gender_standards.min_value ELSE None
MaxOf(o) == IF "max_value" \in DOMAIN o.gender_standards
            THEN o.gender_standards.max_value ELSE None

\* The validation is of a time-based speed exercise.
SpeedExercise(o) ==
    /\ "is_time_based" \in DOMAIN o.exercise_info
    /\ o.exercise_info.is_time_based
    /\ o.exercise_info.result_type = ASAP_TIME

C25_FaultsPropagate ==
    (out.op \in {"ranking", "delete_many"} /\ out.fault # "none")
        => out.call.raised # "none"

(***************************************************************************)
(* C26                                                                     *)
(***************************************************************************)
\* The reading session has just answered a request of the kind op.
Answered(op) ==
    /\ sessions' # sessions
    /\ sessions'.reader # sessions.reader
    /\ sessions'.reader.op = op
    /\ sessions'.reader.pc = "done"

DigitValue(c) ==
    IF c \in {"0", "1", "2", "3", "4", "5", "6", "7", "8", "9"}
    THEN CHOOSE d \in 0..9 : digit(d) = c
    ELSE 10

\* The number a sequence of decimal digits stands for.
RECURSIVE NumberOf(_)
NumberOf(s) ==
    IF s = <<>> THEN 0
    ELSE 10 * NumberOf(SubSeq(s, 1, Len(s) - 1)) + DigitValue(s[Len(s)])

\* s is a non-empty sequence of decimal digits.
IsNumber(s) == s # <<>> /\ \A k \in DOMAIN s : DigitValue(s[k]) < 10

\* s shows seconds as minutes:seconds with two-digit seconds.
ShowsSeconds(s, seconds) ==
    /\ Len(s) >= 4
    /\ s[Len(s) - 2] = ":"
    /\ IsNumber(SubSeq(s, 1, Len(s) - 3))
    /\ IsNumber(SubSeq(s, Len(s) - 1, Len(s)))
    /\ NumberOf(SubSeq(s, Len(s) - 1, Len(s))) < 60
    /\ 60 * NumberOf(SubSeq(s, 1, Len(s) - 3)) + NumberOf(SubSeq(s, Len(s) - 1, Len(s)))
          = seconds

\* C27: time_format_for_time_based_exercise gives every item a
\* formatted_value: no item of any exercise, whatever its unit, is left
\* without it; a value in seconds of a time-based exercise is shown as
\* minutes:seconds with two-digit seconds (30 gives 0:30, 45 gives 0:45); for
\* an exercise that is not time-based an integral float is shown as a plain
\* integer and a non-integral value as its string form.
C27_EveryItemIsFormatted ==
    out.op = "format" =>
        \A k \in DOMAIN out.history_data :
            LET item == out.history_data[k]
            IN  /\ "formatted_value" \in DOMAIN item
                /\ (out.exercise.is_time_based /\ out.exercise.unit = SECONDS) =>
                      /\ ShowsSeconds(item.formatted_value, item.value \div 10)
                      /\ item.value = 300 => item.formatted_value = <<"0", ":", "3", "0">>
                      /\ item.value = 450 => item.formatted_value = <<"0", ":", "4", "5">>
                /\ ~out.exercise.is_time_based =>
                      IF item.value % 10 = 0
                      THEN /\ IsNumber(item.formatted_value)
                           /\ 10 * NumberOf(item.formatted_value) = item.value
                      ELSE /\ Len(item.formatted_value) >= 3
                           /\ item.formatted_value[Len(item.formatted_value) - 1] = "."
                           /\ 10 * NumberOf(SubSeq(item.formatted_value, 1,
                                                   Len(item.formatted_value) - 2))
                              + DigitValue(item.formatted_value[Len(item.formatted_value)])
                                 = item.value

(***************************************************************************)
(* C28                                                                     *)
(***************************************************************************)
\* C28: every ranking that get_user_ranking returns has
\* 1 <= position <= total_users, for every type of exercise and also when
\* submissions of other users are committed between its queries.
C28_PositionWithinTotal ==
    (/\ sessions.reader # None
     /\ sessions.reader.op = "ranking"
     /\ sessions.reader.pc = "done"
     /\ sessions.reader.user_ranking # None)
        => /\ 1 <= sessions.reader.user_ranking.position
           /\ sessions.reader.user_ranking.position
                 <= sessions.reader.user_ranking.total_users

(***************************************************************************)
(* C29                                                                     *)
(***************************************************************************)
\* C29: a direct submission that validation rejects stores no row and is
\* answered with the message of its cause (the only cause of a rejection in
\* this catalog, which has no standards, is a negative value); the message
\* that an error occurred is sent only for faults, and whenever it is sent
\* no row of the submission is committed.
C29_RejectionNamesTheCause ==
    [][out'.op = "submit" =>
          /\ ~out'.stored => /\ results' = results
                             /\ out'.answer = MSG_NEGATIVE_VALUE
          /\ out'.answer = MSG_ADDING_FAILED => results' = results]_vars

(***************************************************************************)
(* C30                                                                     *)
(***************************************************************************)
\* C30: open_test_weeks_menu starts the test-weeks dialog exactly when the
\* test week is globally enabled or the user's test_week_override is set,
\* and shows the alert that the test week is not available when the global
\* switch is off and the user has no override.
C30_MenuOpensOnlyWithAccess ==
    out.op = "open_test_weeks_menu" =>
        /\ can_user_access_week(settings, out.user_id)
              <=> (\/ settings.test_week_enabled
                   \/ settings.test_week_override[out.user_id])
        /\ out.dialog_started <=> can_user_access_week(settings, out.user_id)
        /\ out.alert_shown <=> ~can_user_access_week(settings, out.user_id)

====
